---- MODULE Spec2Model ----
(***************************************************************************)
(* Inventory reservation and order lifecycle of the e-pharmacy API.        *)
(*                                                                         *)
(* Product ledger  : src/models/User.js 347-556 (ProductSchema)            *)
(* Cart            : src/models/HeroBanner.js 114-399 (CartSchema)         *)
(* Cart handlers   : src/controllers/heroBannerController.js 489-1054      *)
(* Order           : src/unnamed/part_005 170-661 (OrderSchema)            *)
(* Order handlers  : src/controllers/orderController.js,                   *)
(*                   src/unnamed/part_011 (admin updateOrder)              *)
(* Stock update    : src/controllers/productController.js 204-236          *)
(* Background jobs : src/jobs/cronJobs.js                                  *)
(*                                                                         *)
(* Money is counted in paisa (1/100 rupee); profit in tenths of a paisa,   *)
(* so that the 0.7 cost ratio stays an integer computation.  Time is       *)
(* counted in minutes.                                                     *)
(***************************************************************************)
EXTENDS Integers, Sequences, FiniteSets, TLC

\* ------------------------------------------------------------------ bounds
MaxQty == 2
MaxLineQty == 3
InitStock == 2
MaxTime == 40
MaxOrderTime == 20
TickMinutes == 20
MaxHist == 2
MaxPrescriptions == 1

\* ------------------------------------------------------- program constants
SessionTtlMinutes == 30
FeeBiratnagar == 5000
FeeOutside == 10000
CostRatioTenths == 7
HistoryKeep == 50

\* ------------------------------------------------------------ the catalog
Products == {"p1", "p2"}
Sessions == {"s1", "s2"}
OrderIds == {"o1"}
PurchaseTypes == {"unit", "package"}
Cities == {"biratnagar", "kathmandu"}
\* the products the ledger specification exercises
LedgerProducts == {"p1"}

\* catalog data of the two products (fields of ProductSchema)
productType(p) == IF p = "p1" THEN "tablet" ELSE "syrup"
unitsPerStrip(p) == IF p = "p1" THEN 2 ELSE 1
allowUnitSale(p) == p = "p1"
medicineType(p) == IF p = "p1" THEN "OTC" ELSE "Prescription"
price(p) == IF p = "p1" THEN 10000 ELSE 20000
minOrderQuantity(p) == 1
maxOrderQuantity(p) == 0

Max(a, b) == IF a > b THEN a ELSE b
Min(a, b) == IF a < b THEN a ELSE b
\* Math.ceil(a / b) for positive b
Ceil(a, b) == (a + b - 1) \div b
\* parseFloat((a / b).toFixed(2)) on paisa amounts: nearest paisa
ToFixed2(a, b) == (2 * a + b) \div (2 * b)

isStripType(p) == productType(p) \in {"tablet", "capsule"}

VARIABLES product, cart, order, now, response, req

vars == <<product, cart, order, now, response, req>>

\* ------------------------------------------------------------ the ledger
\* a product document: [stock, reservedStock]
availableStock(doc) == Max(0, doc.stock - doc.reservedStock)

productPreSave(doc) ==
    IF doc.reservedStock > doc.stock
    THEN [doc EXCEPT !.reservedStock = doc.stock]
    ELSE doc

\* a reserve that overwrites the counter instead of adding to it
reserveStockOverwrite(doc, quantity) ==
    IF availableStock(doc) < quantity
    THEN [ok |-> FALSE, doc |-> doc]
    ELSE [ok |-> TRUE,
          doc |-> productPreSave([doc EXCEPT !.reservedStock = quantity])]

reserveStock(doc, quantity) ==
    IF availableStock(doc) < quantity
    THEN [ok |-> FALSE, doc |-> doc]
    ELSE [ok |-> TRUE,
          doc |-> productPreSave([doc EXCEPT !.reservedStock = @ + quantity])]

releaseReservedStock(doc, quantity) ==
    productPreSave([doc EXCEPT !.reservedStock = Max(0, @ - quantity)])

deductStock(doc, quantity) ==
    IF doc.reservedStock < quantity
    THEN [ok |-> FALSE, doc |-> doc]
    ELSE [ok |-> TRUE,
          doc |-> productPreSave([doc EXCEPT !.stock = @ - quantity,
                                             !.reservedStock = @ - quantity])]

\* ------------------------------------------------------------- the cart
calculatePricing(p, purchaseType, quantity) ==
    IF purchaseType = "unit" /\ isStripType(p)
    THEN [pricePerItem |-> ToFixed2(price(p), unitsPerStrip(p)),
          stockNeeded |-> Ceil(quantity, unitsPerStrip(p))]
    ELSE [pricePerItem |-> price(p), stockNeeded |-> quantity]

\* the stock computation repeated inside CartSchema.methods
cartStockNeeded(p, purchaseType, quantity) ==
    IF purchaseType = "unit" /\ isStripType(p)
    THEN Ceil(quantity, unitsPerStrip(p))
    ELSE quantity

RECURSIVE SumField(_, _)
SumField(items, f) ==
    IF items = <<>> THEN 0
    ELSE Head(items)[f] + SumField(Tail(items), f)

calculateTotals(c) ==
    [c EXCEPT !.subtotal = SumField(c.items, "totalPrice"),
              !.totalItems = SumField(c.items, "quantity")]

extendExpiration(c, t) == [c EXCEPT !.expiresAt = t + SessionTtlMinutes]

\* a cart that never counts as expired
isExpiredNever(c, t) == FALSE

isExpired(c, t) == c.expiresAt < t

NoCart == [status |-> "none", items |-> <<>>, expiresAt |-> 0,
           subtotal |-> 0, totalItems |-> 0]

\* new Cart({...}): the schema defaults
NewCart(t) == [status |-> "active", items |-> <<>>,
               expiresAt |-> t + SessionTtlMinutes,
               subtotal |-> 0, totalItems |-> 0]

\* Cart.findOne({owner, status: 'active'}): one cart record per owner
findActiveCart(s) == cart[s].status = "active"

getOrCreateCart(s, t) == IF findActiveCart(s) THEN cart[s] ELSE NewCart(t)

\* index of the line for (product, purchaseType), 0 when absent
findIndex(items, p, purchaseType) ==
    IF \E i \in 1..Len(items) :
          items[i].product = p /\ items[i].purchaseType = purchaseType
    THEN CHOOSE i \in 1..Len(items) :
          /\ items[i].product = p /\ items[i].purchaseType = purchaseType
          /\ \A j \in 1..(i - 1) :
                ~(items[j].product = p /\ items[j].purchaseType = purchaseType)
    ELSE 0

splice(items, i) ==
    [j \in 1..(Len(items) - 1) |-> IF j < i THEN items[j] ELSE items[j + 1]]

\* CartSchema.methods.addItem
addItem(c, p, quantity, purchaseType, pricePerItem, t) ==
    LET i == findIndex(c.items, p, purchaseType)
        merged ==
            LET newTotalQuantity == c.items[i].quantity + quantity
            IN  [c.items EXCEPT ![i] =
                    [@ EXCEPT !.quantity = newTotalQuantity,
                              !.totalPrice = newTotalQuantity * pricePerItem,
                              !.reservedStock =
                                  cartStockNeeded(p, purchaseType, newTotalQuantity)]]
        pushed ==
            Append(c.items,
                   [product |-> p, quantity |-> quantity,
                    purchaseType |-> purchaseType,
                    pricePerItem |-> pricePerItem,
                    totalPrice |-> quantity * pricePerItem,
                    reservedStock |-> cartStockNeeded(p, purchaseType, quantity)])
    IN  extendExpiration(
            calculateTotals([c EXCEPT !.items = IF i > 0 THEN merged ELSE pushed]), t)

\* CartSchema.methods.updateItemQuantity (the line exists)
updateItemQuantity(c, p, purchaseType, newQuantity, t) ==
    LET i == findIndex(c.items, p, purchaseType)
        items2 ==
            IF newQuantity <= 0 THEN splice(c.items, i)
            ELSE [c.items EXCEPT ![i] =
                    [@ EXCEPT !.quantity = newQuantity,
                              !.totalPrice = newQuantity * c.items[i].pricePerItem,
                              !.reservedStock =
                                  cartStockNeeded(p, purchaseType, newQuantity)]]
    IN  extendExpiration(calculateTotals([c EXCEPT !.items = items2]), t)

\* CartSchema.methods.removeItem (the line exists)
removeItem(c, p, purchaseType) ==
    LET i == findIndex(c.items, p, purchaseType)
    IN  calculateTotals([c EXCEPT !.items = splice(c.items, i)])

\* CartSchema.methods.clearCart
clearCart(c) == calculateTotals([c EXCEPT !.items = <<>>])

\* release every line of a list on the ledger, in order
RECURSIVE releaseLines(_, _)
releaseLines(prod, items) ==
    IF items = <<>> THEN prod
    ELSE LET it == Head(items)
             prod2 == IF it.reservedStock > 0
                      THEN [prod EXCEPT ![it.product] =
                               releaseReservedStock(@, it.reservedStock)]
                      ELSE prod
         IN  releaseLines(prod2, Tail(items))

Resp(op, code) == code

\* ------------------------------------------------------- cart handlers
\* POST /api/cart/add; saveFails: the save inside cart.addItem() rejects
AddToCart(s, p, quantity, purchaseType, saveFails) ==
    LET pr == calculatePricing(p, purchaseType, quantity)
        avail == product[p].stock - product[p].reservedStock
        r == reserveStock(product[p], pr.stockNeeded)
        i == findIndex(cart[s].items, p, purchaseType)
    IN  /\ (findActiveCart(s) /\ i > 0) =>
               cart[s].items[i].quantity + quantity <= MaxLineQty
        /\ UNCHANGED <<order, now, req>>
        /\ IF quantity < 1
           THEN /\ response' = Resp("addToCart", "BadRequest")
                /\ UNCHANGED <<product, cart>>
           ELSE IF quantity < minOrderQuantity(p)
                   \/ (maxOrderQuantity(p) # 0 /\ quantity > maxOrderQuantity(p))
           THEN /\ response' = Resp("addToCart", "QuantityOutOfRange")
                /\ UNCHANGED <<product, cart>>
           ELSE IF purchaseType = "unit" /\ (~isStripType(p) \/ ~allowUnitSale(p))
           THEN /\ response' = Resp("addToCart", "UnitSaleNotAllowed")
                /\ UNCHANGED <<product, cart>>
           ELSE IF avail < pr.stockNeeded
           THEN /\ response' = Resp("addToCart", "InsufficientStock")
                /\ UNCHANGED <<product, cart>>
           ELSE IF ~r.ok
           THEN \* reserveStock throws after getOrCreateCart saved a new cart
                /\ response' = Resp("addToCart", "Error")
                /\ cart' = [cart EXCEPT ![s] = getOrCreateCart(s, now)]
                /\ UNCHANGED product
           ELSE IF saveFails
           THEN \* the catch block releases what was reserved and rethrows
                /\ response' = Resp("addToCart", "Error")
                /\ cart' = [cart EXCEPT ![s] = getOrCreateCart(s, now)]
                /\ product' = [product EXCEPT ![p] =
                       releaseReservedStock(r.doc, pr.stockNeeded)]
           ELSE /\ response' = Resp("addToCart", "ok")
                /\ product' = [product EXCEPT ![p] = r.doc]
                /\ cart' = [cart EXCEPT ![s] =
                       addItem(getOrCreateCart(s, now), p, quantity,
                               purchaseType, pr.pricePerItem, now)]

\* PUT /api/cart/update; saveFails: the save inside cart.removeItem() or
\* cart.updateItemQuantity() rejects
UpdateCartItem(s, p, purchaseType, quantity, saveFails) ==
    LET c == cart[s]
        i == findIndex(c.items, p, purchaseType)
        newStockNeeded == calculatePricing(p, purchaseType, quantity).stockNeeded
        currentStockNeeded ==
            calculatePricing(p, purchaseType, c.items[i].quantity).stockNeeded
        stockDifference == newStockNeeded - currentStockNeeded
        avail == product[p].stock - product[p].reservedStock
        r == reserveStock(product[p], stockDifference)
    IN  /\ UNCHANGED <<order, now, req>>
        /\ IF quantity < 0
           THEN /\ response' = Resp("updateCartItem", "BadRequest")
                /\ UNCHANGED <<product, cart>>
           ELSE IF ~findActiveCart(s) \/ i = 0
           THEN /\ response' = Resp("updateCartItem", "NotFound")
                /\ UNCHANGED <<product, cart>>
           ELSE IF purchaseType = "unit" /\ (~isStripType(p) \/ ~allowUnitSale(p))
           THEN /\ response' = Resp("updateCartItem", "UnitSaleNotAllowed")
                /\ UNCHANGED <<product, cart>>
           ELSE IF quantity = 0
           THEN IF saveFails
                THEN /\ response' = Resp("updateCartItem", "Error")
                     /\ UNCHANGED <<product, cart>>
                ELSE /\ response' = Resp("updateCartItem", "ok")
                     /\ cart' = [cart EXCEPT ![s] = removeItem(c, p, purchaseType)]
                     /\ product' = [product EXCEPT ![p] =
                            releaseReservedStock(@, currentStockNeeded)]
           ELSE IF quantity < minOrderQuantity(p)
                   \/ (maxOrderQuantity(p) # 0 /\ quantity > maxOrderQuantity(p))
           THEN /\ response' = Resp("updateCartItem", "QuantityOutOfRange")
                /\ UNCHANGED <<product, cart>>
           ELSE IF stockDifference > 0 /\ avail < stockDifference
           THEN /\ response' = Resp("updateCartItem", "InsufficientStock")
                /\ UNCHANGED <<product, cart>>
           ELSE IF stockDifference > 0 /\ ~r.ok
           THEN /\ response' = Resp("updateCartItem", "Error")
                /\ UNCHANGED <<product, cart>>
           ELSE /\ product' = [product EXCEPT ![p] =
                       IF stockDifference > 0 THEN r.doc
                       ELSE IF stockDifference < 0
                            THEN releaseReservedStock(@, -stockDifference)
                            ELSE @]
                /\ IF saveFails
                   THEN \* the ledger was already written, nothing undoes it
                        /\ response' = Resp("updateCartItem", "Error")
                        /\ UNCHANGED cart
                   ELSE /\ response' = Resp("updateCartItem", "ok")
                        /\ cart' = [cart EXCEPT ![s] =
                               updateItemQuantity(c, p, purchaseType, quantity, now)]

\* DELETE /api/cart/remove
RemoveFromCart(s, p, purchaseType) ==
    LET c == cart[s]
        i == findIndex(c.items, p, purchaseType)
    IN  /\ UNCHANGED <<order, now, req>>
        /\ IF ~findActiveCart(s)
           THEN /\ response' = Resp("removeFromCart", "NotFound")
                /\ UNCHANGED <<product, cart>>
           ELSE IF i = 0
           THEN /\ response' = Resp("removeFromCart", "Error")
                /\ UNCHANGED <<product, cart>>
           ELSE /\ response' = Resp("removeFromCart", "ok")
                /\ cart' = [cart EXCEPT ![s] = removeItem(c, p, purchaseType)]
                /\ product' = releaseLines(product, <<c.items[i]>>)

\* DELETE /api/cart/clear
ClearCart(s) ==
    /\ UNCHANGED <<order, now, req>>
    /\ IF ~findActiveCart(s)
       THEN /\ response' = Resp("clearCart", "NotFound")
            /\ UNCHANGED <<product, cart>>
       ELSE /\ response' = Resp("clearCart", "ok")
            /\ cart' = [cart EXCEPT ![s] = clearCart(@)]
            /\ product' = releaseLines(product, cart[s].items)

\* GET /api/cart
GetCart(s) ==
    /\ UNCHANGED <<order, now, product, req>>
    /\ IF ~findActiveCart(s)
       THEN /\ response' = Resp("getCart", "empty")
            /\ UNCHANGED cart
       ELSE IF isExpired(cart[s], now)
       THEN /\ response' = Resp("getCart", "expired")
            /\ UNCHANGED cart
       ELSE /\ response' = Resp("getCart", "ok")
            /\ cart' = [cart EXCEPT ![s] = extendExpiration(@, now)]

\* ------------------------------------------------------------ the sweeper
expiredCarts == {s \in Sessions : cart[s].status = "active" /\ cart[s].expiresAt < now}

RECURSIVE sweepProducts(_, _)
sweepProducts(prod, ss) ==
    IF ss = {} THEN prod
    ELSE LET s == CHOOSE x \in ss : TRUE
         IN  sweepProducts(releaseLines(prod, cart[s].items), ss \ {s})

\* CartSchema.statics.cleanupExpiredCarts, run by the periodic job
CleanupExpiredCarts ==
    /\ UNCHANGED <<order, now, req>>
    /\ response' = Resp("cleanupExpiredCarts", "ok")
    /\ product' = sweepProducts(product, expiredCarts)
    /\ cart' = [s \in Sessions |->
                  IF s \in expiredCarts
                  THEN [cart[s] EXCEPT !.status = "expired"]
                  ELSE cart[s]]

\* the orders in which the query of the sweep can return the expired carts
SweepOrders ==
    {ord \in [1..Cardinality(expiredCarts) -> expiredCarts] :
        \A a, b \in 1..Cardinality(expiredCarts) : a # b => ord[a] # ord[b]}

\* every list of sessions a query can return
SessionLists == UNION {[1..n -> Sessions] : n \in 0..Cardinality(Sessions)}

\* the ledger after the sweep has gone through the first n carts of ord
RECURSIVE sweepFirst(_, _, _)
sweepFirst(prod, ord, n) ==
    IF n = 0 THEN prod
    ELSE releaseLines(sweepFirst(prod, ord, n - 1), cart[ord[n]].items)

\* cleanupExpiredCarts during which a save rejects: in cart ord[j] the
\* release of line k throws, or cart.save() when k is past the last line;
\* the exception leaves both loops and is logged by the job
CleanupExpiredCartsFails(ord, j, k) ==
    /\ ord \in SweepOrders
    /\ j \in 1..Cardinality(expiredCarts)
    /\ k \in 1..(Len(cart[ord[j]].items) + 1)
    /\ UNCHANGED <<order, now, req>>
    /\ response' = Resp("cleanupExpiredCarts", "SweepError")
    /\ product' = releaseLines(sweepFirst(product, ord, j - 1),
                               SubSeq(cart[ord[j]].items, 1, k - 1))
    /\ cart' = [s \in Sessions |->
                  IF \E a \in 1..(j - 1) : ord[a] = s
                  THEN [cart[s] EXCEPT !.status = "expired"]
                  ELSE cart[s]]

\* the clock advances
Tick(limit) ==
    /\ now + TickMinutes <= limit
    /\ now' = now + TickMinutes
    /\ response' = Resp("tick", "ok")
    /\ UNCHANGED <<product, cart, order, req>>

\* ------------------------------------------------------------- the order
Statuses == {"pending", "prescription_verified", "confirmed", "packed",
             "out_for_delivery", "delivered", "cancelled", "returned"}

NoRevenue == [recorded |-> FALSE, grossRevenue |-> 0, netRevenue |-> 0,
              profit10 |-> 0, recordedAt |-> 0]

NoOrder == [exists |-> FALSE, items |-> <<>>, prescriptions |-> <<>>,
            hasPrescriptionItems |-> FALSE, prescriptionStatus |-> "not_required",
            pricing |-> [subtotal |-> 0, deliveryFee |-> 0, tax |-> 0,
                         discount |-> 0, total |-> 0],
            status |-> "pending", statusHistory |-> <<>>, revenue |-> NoRevenue]

calculateDeliveryFee(city) ==
    IF city \in {"biratnagar", "itahari"} THEN FeeBiratnagar ELSE FeeOutside

\* a save hook that leaves the delivery fee out of the total
orderPreSaveNoFee(ord) ==
    LET has == \E i \in 1..Len(ord.items) : ord.items[i].prescriptionRequired
        sub == SumField(ord.items, "totalPrice")
    IN  [ord EXCEPT
            !.hasPrescriptionItems = has,
            !.prescriptionStatus =
                IF has /\ @ = "not_required" THEN "pending_verification" ELSE @,
            !.pricing = [@ EXCEPT !.subtotal = sub,
                                  !.total = sub + ord.pricing.tax
                                           - ord.pricing.discount]]

\* OrderSchema.pre('save')
orderPreSave(ord) ==
    LET has == \E i \in 1..Len(ord.items) : ord.items[i].prescriptionRequired
        sub == SumField(ord.items, "totalPrice")
    IN  [ord EXCEPT
            !.hasPrescriptionItems = has,
            !.prescriptionStatus =
                IF has /\ @ = "not_required" THEN "pending_verification" ELSE @,
            !.pricing = [@ EXCEPT !.subtotal = sub,
                                  !.total = sub + ord.pricing.deliveryFee + ord.pricing.tax
                                           - ord.pricing.discount]]

\* the base units of one order line, as confirmSale and releaseReservedStock
\* of the order compute them
orderLineStock(item) ==
    IF item.purchaseType = "unit" /\ isStripType(item.product)
    THEN Ceil(item.quantity, unitsPerStrip(item.product))
    ELSE item.quantity

\* a recording without the guard on revenue.recorded
recordRevenueUnguarded(ord, t) ==
    IF ord.status = "delivered"
    THEN orderPreSave(
            [ord EXCEPT !.revenue =
                [recorded |-> TRUE,
                 grossRevenue |-> ord.pricing.total,
                 netRevenue |-> ord.pricing.total - ord.pricing.deliveryFee,
                 profit10 |-> 10 * (ord.pricing.total - ord.pricing.deliveryFee)
                              - CostRatioTenths * SumField(ord.items, "totalPrice"),
                 recordedAt |-> t]])
    ELSE ord

\* OrderSchema.methods.recordRevenue
recordRevenue(ord, t) ==
    IF ord.status = "delivered" /\ ~ord.revenue.recorded
    THEN orderPreSave(
            [ord EXCEPT !.revenue =
                [recorded |-> TRUE,
                 grossRevenue |-> ord.pricing.total,
                 netRevenue |-> ord.pricing.total - ord.pricing.deliveryFee,
                 profit10 |-> 10 * (ord.pricing.total - ord.pricing.deliveryFee)
                              - CostRatioTenths * SumField(ord.items, "totalPrice"),
                 recordedAt |-> t]])
    ELSE ord

\* OrderSchema.methods.releaseReservedStock
RECURSIVE orderReleaseReservedStock(_, _)
orderReleaseReservedStock(prod, items) ==
    IF items = <<>> THEN prod
    ELSE LET it == Head(items)
         IN  orderReleaseReservedStock(
                 [prod EXCEPT ![it.product] =
                     releaseReservedStock(@, orderLineStock(it))],
                 Tail(items))

\* OrderSchema.methods.confirmSale: stops at the first line that cannot be
\* deducted, the lines before it stay deducted
RECURSIVE confirmSale(_, _)
confirmSale(prod, items) ==
    IF items = <<>> THEN [ok |-> TRUE, product |-> prod]
    ELSE LET it == Head(items)
             d == deductStock(prod[it.product], orderLineStock(it))
         IN  IF d.ok
             THEN confirmSale([prod EXCEPT ![it.product] = d.doc], Tail(items))
             ELSE [ok |-> FALSE, product |-> prod]

\* a status update that leaves the history as it is
updateStatusNoHistory(ord, newStatus, prod, t) ==
    LET o1 == [ord EXCEPT !.status = newStatus]
        o2 == IF newStatus = "delivered" THEN recordRevenue(o1, t) ELSE o1
        p2 == IF newStatus = "cancelled"
              THEN orderReleaseReservedStock(prod, ord.items)
              ELSE prod
    IN  [order |-> orderPreSave(o2), product |-> p2]

\* OrderSchema.methods.updateStatus
updateStatus(ord, newStatus, prod, t) ==
    LET o1 == [ord EXCEPT !.status = newStatus,
                          !.statusHistory = Append(@, newStatus)]
        o2 == IF newStatus = "delivered" THEN recordRevenue(o1, t) ELSE o1
        p2 == IF newStatus = "cancelled"
              THEN orderReleaseReservedStock(prod, ord.items)
              ELSE prod
    IN  [order |-> orderPreSave(o2), product |-> p2]

\* a validation that accepts every order
validatePrescriptionAlways(items, nPrescriptions) == TRUE

validatePrescriptionRequirements(items, nPrescriptions) ==
    ~((\E i \in 1..Len(items) : items[i].prescriptionRequired)
      /\ nPrescriptions = 0)

\* the first cart line whose product has less available stock than the line
\* needs, 0 when every line passes
RECURSIVE firstShortLine(_, _)
firstShortLine(items, i) ==
    IF i > Len(items) THEN 0
    ELSE IF availableStock(product[items[i].product])
              < (IF items[i].purchaseType = "unit" /\ isStripType(items[i].product)
                 THEN Ceil(items[i].quantity, unitsPerStrip(items[i].product))
                 ELSE items[i].quantity)
    THEN i
    ELSE firstShortLine(items, i + 1)

orderItemOf(line) ==
    [product |-> line.product, quantity |-> line.quantity,
     purchaseType |-> line.purchaseType, totalPrice |-> line.totalPrice,
     prescriptionRequired |-> (medicineType(line.product) = "Prescription")]

freeOrderIds == {o \in OrderIds : ~order[o].exists}

\* POST /api/orders; clearFails: the save inside cart.clearCart() rejects
CreateOrder(s, city, nPrescriptions, clearFails) ==
    LET c == cart[s]
        orderItems == [i \in 1..Len(c.items) |-> orderItemOf(c.items[i])]
        subtotal == SumField(orderItems, "totalPrice")
        deliveryFee == calculateDeliveryFee(city)
        has == \E i \in 1..Len(orderItems) : orderItems[i].prescriptionRequired
        newOrder ==
            orderPreSave(
                [exists |-> TRUE, items |-> orderItems,
                 prescriptions |-> [i \in 1..nPrescriptions |-> FALSE],
                 hasPrescriptionItems |-> has,
                 prescriptionStatus |->
                     IF has THEN "pending_verification" ELSE "not_required",
                 pricing |-> [subtotal |-> subtotal, deliveryFee |-> deliveryFee,
                              tax |-> 0, discount |-> 0,
                              total |-> subtotal + deliveryFee],
                 status |-> "pending", statusHistory |-> <<>>,
                 revenue |-> NoRevenue])
    IN  /\ UNCHANGED <<now, product, req>>
        /\ IF ~findActiveCart(s) \/ Len(c.items) = 0
           THEN /\ response' = Resp("createOrder", "CartEmpty")
                /\ UNCHANGED <<cart, order>>
           ELSE IF isExpired(c, now)
           THEN /\ response' = Resp("createOrder", "CartExpired")
                /\ UNCHANGED <<cart, order>>
           ELSE IF firstShortLine(c.items, 1) # 0
           THEN /\ response' = Resp("createOrder", "CheckoutInsufficientStock")
                /\ UNCHANGED <<cart, order>>
           ELSE IF ~validatePrescriptionRequirements(orderItems, nPrescriptions)
           THEN /\ response' = Resp("createOrder", "PrescriptionRequired")
                /\ UNCHANGED <<cart, order>>
           ELSE /\ freeOrderIds # {}
                /\ order' = [order EXCEPT ![CHOOSE o \in freeOrderIds : TRUE] = newOrder]
                /\ IF clearFails
                   THEN /\ response' = Resp("createOrder", "Error")
                        /\ UNCHANGED cart
                   ELSE /\ response' = Resp("createOrder", "created")
                        /\ cart' = [cart EXCEPT ![s] = clearCart(@)]

\* PUT /api/orders/:id/status
UpdateOrderStatus(o, status) ==
    LET u == updateStatus(order[o], status, product, now)
        cs == confirmSale(u.product, u.order.items)
    IN  /\ order[o].exists
        /\ Len(order[o].statusHistory) < MaxHist
        /\ UNCHANGED <<cart, now, req>>
        /\ order' = [order EXCEPT ![o] = u.order]
        /\ IF status = "confirmed"
           THEN /\ product' = cs.product
                /\ response' = Resp("updateOrderStatus",
                                    IF cs.ok THEN "ok"
                                    ELSE "InsufficientReservedStock")
           ELSE /\ product' = u.product
                /\ response' = Resp("updateOrderStatus", "ok")

\* PUT /api/orders/:id/cancel
CancelOrder(o) ==
    LET u == updateStatus(order[o], "cancelled", product, now)
    IN  /\ order[o].exists
        /\ Len(order[o].statusHistory) < MaxHist
        /\ UNCHANGED <<cart, now, req>>
        /\ IF order[o].status \in {"delivered", "cancelled", "returned"}
           THEN /\ response' = Resp("cancelOrder", "CannotCancel")
                /\ UNCHANGED <<order, product>>
           ELSE /\ response' = Resp("cancelOrder", "ok")
                /\ order' = [order EXCEPT ![o] = u.order]
                /\ product' = u.product

\* PUT /api/orders/:id/verify-prescription
VerifyPrescription(o, i, verified) ==
    LET ord == order[o]
        o1 == [ord EXCEPT !.prescriptions[i] = verified]
        all == \A j \in 1..Len(o1.prescriptions) : o1.prescriptions[j]
        u == IF verified /\ all
             THEN updateStatus([o1 EXCEPT !.prescriptionStatus = "verified"],
                               "prescription_verified", product, now)
             ELSE IF ~verified
             THEN updateStatus([o1 EXCEPT !.prescriptionStatus = "rejected"],
                               "cancelled", product, now)
             ELSE [order |-> o1, product |-> product]
    IN  /\ ord.exists
        /\ Len(ord.statusHistory) < MaxHist
        /\ UNCHANGED <<cart, now, req>>
        /\ IF i > Len(ord.prescriptions)
           THEN /\ response' = Resp("verifyPrescription", "NotFound")
                /\ UNCHANGED <<order, product>>
           ELSE /\ response' = Resp("verifyPrescription", "ok")
                /\ order' = [order EXCEPT ![o] = orderPreSave(u.order)]
                /\ product' = u.product

\* PUT /api/admin/orders/:orderId: optional prescriptionVerification
\* (action, i) and optional status; "none" stands for an absent field
AdminUpdateOrder(o, status, action, i) ==
    LET ord == order[o]
        o1 == IF action = "approve"
              THEN LET a1 == [ord EXCEPT !.prescriptions[i] = TRUE]
                   IN  IF \A j \in 1..Len(a1.prescriptions) : a1.prescriptions[j]
                       THEN [a1 EXCEPT !.prescriptionStatus = "verified"]
                       ELSE a1
              ELSE IF action = "reject"
              THEN [ord EXCEPT !.prescriptions[i] = FALSE,
                               !.prescriptionStatus = "rejected"]
              ELSE ord
        u == IF status # "none"
             THEN updateStatus(o1, status, product, now)
             ELSE [order |-> o1, product |-> product]
    IN  /\ ord.exists
        /\ status # "none" => Len(ord.statusHistory) < MaxHist
        /\ UNCHANGED <<cart, now, req>>
        /\ IF action # "none" /\ i > Len(ord.prescriptions)
           THEN /\ response' = Resp("adminUpdateOrder", "NotFound")
                /\ UNCHANGED <<order, product>>
           ELSE /\ response' = Resp("adminUpdateOrder", "ok")
                /\ order' = [order EXCEPT ![o] = orderPreSave(u.order)]
                /\ product' = u.product

\* the hourly revenue job
RevenueJob ==
    /\ UNCHANGED <<cart, now, product, req>>
    /\ response' = Resp("revenueJob", "ok")
    /\ order' = [o \in OrderIds |->
                   IF order[o].exists /\ order[o].status = "delivered"
                      /\ ~order[o].revenue.recorded
                   THEN recordRevenue(order[o], now)
                   ELSE order[o]]

\* the weekly job: orders with more than HistoryKeep entries keep the last
\* HistoryKeep of them
HistoryCleanupJob ==
    /\ UNCHANGED <<cart, now, product, req>>
    /\ response' = Resp("historyCleanupJob", "ok")
    /\ order' = [o \in OrderIds |->
                   IF order[o].exists /\ Len(order[o].statusHistory) > HistoryKeep
                   THEN orderPreSave(
                           [order[o] EXCEPT !.statusHistory =
                               SubSeq(@, Len(@) - HistoryKeep + 1, Len(@))])
                   ELSE order[o]]

\* PATCH /api/products/:id/stock
UpdateStock(p, n) ==
    /\ n >= 0
    /\ UNCHANGED <<cart, now, order, req>>
    /\ response' = Resp("updateStock", "ok")
    /\ product' = [product EXCEPT ![p].stock = n]

\* ------------------------------------- addToCart, one await at a time
\* an add request in flight: the product document it loaded and how far it got
Idle == [pc |-> "idle", p |-> "p1", quantity |-> 0, purchaseType |-> "package",
         doc |-> [stock |-> 0, reservedStock |-> 0]]

\* Product.findById, the validations and the availability check
BeginAdd(s, p, quantity, purchaseType) ==
    LET pr == calculatePricing(p, purchaseType, quantity)
        doc == product[p]
        i == findIndex(cart[s].items, p, purchaseType)
    IN  /\ req[s].pc = "idle"
        /\ (findActiveCart(s) /\ i > 0) =>
               cart[s].items[i].quantity + quantity <= MaxLineQty
        /\ quantity >= 1 /\ quantity >= minOrderQuantity(p)
        /\ purchaseType = "unit" => (isStripType(p) /\ allowUnitSale(p))
        /\ UNCHANGED <<product, cart, order, now>>
        /\ IF doc.stock - doc.reservedStock < pr.stockNeeded
           THEN /\ response' = Resp("addToCart", "InsufficientStock")
                /\ UNCHANGED req
           ELSE /\ response' = Resp("addToCart", "pending")
                /\ req' = [req EXCEPT ![s] =
                       [pc |-> "checked", p |-> p, quantity |-> quantity,
                        purchaseType |-> purchaseType, doc |-> doc]]

\* product.reserveStock on the loaded document; save() writes the modified
\* path reservedStock only
ReserveAdd(s) ==
    LET r == req[s]
        pr == calculatePricing(r.p, r.purchaseType, r.quantity)
        res == reserveStock(r.doc, pr.stockNeeded)
    IN  /\ r.pc = "checked"
        /\ UNCHANGED <<cart, order, now>>
        /\ IF res.ok
           THEN /\ product' = [product EXCEPT ![r.p].reservedStock =
                                   res.doc.reservedStock]
                /\ req' = [req EXCEPT ![s].pc = "reserved", ![s].doc = res.doc]
                /\ response' = Resp("addToCart", "pending")
           ELSE /\ req' = [req EXCEPT ![s] = Idle]
                /\ response' = Resp("addToCart", "Error")
                /\ UNCHANGED product

\* getOrCreateCart and cart.addItem
FinishAdd(s) ==
    LET r == req[s]
        pr == calculatePricing(r.p, r.purchaseType, r.quantity)
    IN  /\ r.pc = "reserved"
        /\ UNCHANGED <<product, order, now>>
        /\ cart' = [cart EXCEPT ![s] =
               addItem(getOrCreateCart(s, now), r.p, r.quantity,
                       r.purchaseType, pr.pricePerItem, now)]
        /\ req' = [req EXCEPT ![s] = Idle]
        /\ response' = Resp("addToCart", "ok")

\* ------------------------------- cleanupExpiredCarts, one await at a time
\* the sweeper is one more process in req: the carts its query returned, with
\* the lines they had then, and the product documents that populate() loaded
Sweeper == "sweeper"

SweeperIdle == [pc |-> "idle", found |-> <<>>,
                docs |-> [p \in Products |-> [stock |-> 0, reservedStock |-> 0]]]

\* Cart.find({status: 'active', expiresAt: {$lt: now}}).populate('items.product')
FindExpiredCarts(ord) ==
    /\ req[Sweeper].pc = "idle"
    /\ ord \in SweepOrders
    /\ UNCHANGED <<product, cart, order, now>>
    /\ response' = Resp("cleanupExpiredCarts", "pending")
    /\ req' = [req EXCEPT ![Sweeper] =
           IF Len(ord) = 0 THEN SweeperIdle
           ELSE [pc |-> "found",
                 found |-> [i \in 1..Len(ord) |->
                              [s |-> ord[i], items |-> cart[ord[i]].items]],
                 docs |-> product]]

\* the inner loop on the first cart that is left: every line is released on
\* the loaded product document, whose save() writes reservedStock
ReleaseExpiredCart ==
    LET sw == req[Sweeper]
        docs2 == releaseLines(sw.docs, Head(sw.found).items)
    IN  /\ sw.pc = "found"
        /\ UNCHANGED <<cart, order, now>>
        /\ response' = Resp("cleanupExpiredCarts", "pending")
        /\ product' = [p \in Products |->
                          IF docs2[p].reservedStock # sw.docs[p].reservedStock
                          THEN [product[p] EXCEPT !.reservedStock =
                                   docs2[p].reservedStock]
                          ELSE product[p]]
        /\ req' = [req EXCEPT ![Sweeper].pc = "released",
                               ![Sweeper].docs = docs2]

\* cart.status = 'expired'; cart.save() writes the status of that cart
MarkExpiredCart ==
    LET sw == req[Sweeper]
        rest == Tail(sw.found)
    IN  /\ sw.pc = "released"
        /\ UNCHANGED <<product, order, now>>
        /\ cart' = [cart EXCEPT ![Head(sw.found).s].status = "expired"]
        /\ response' = Resp("cleanupExpiredCarts",
                            IF rest = <<>> THEN "ok" ELSE "pending")
        /\ req' = [req EXCEPT ![Sweeper] =
               IF rest = <<>> THEN SweeperIdle
               ELSE [sw EXCEPT !.pc = "found", !.found = rest]]

Init ==
    /\ product = [p \in Products |-> [stock |-> InitStock, reservedStock |-> 0]]
    /\ cart = [s \in Sessions |-> NoCart]
    /\ order = [o \in OrderIds |-> NoOrder]
    /\ now = 0
    /\ response = Resp("init", "ok")
    /\ req = [s \in Sessions \cup {Sweeper} |-> IF s = Sweeper THEN SweeperIdle ELSE Idle]

NextCart ==
    \/ \E s \in Sessions, p \in Products, q \in 1..MaxQty, t \in PurchaseTypes :
          AddToCart(s, p, q, t, FALSE)
    \/ \E s \in Sessions, p \in Products, q \in 0..MaxQty, t \in PurchaseTypes :
          UpdateCartItem(s, p, t, q, FALSE)
    \/ \E s \in Sessions, p \in Products, t \in PurchaseTypes :
          RemoveFromCart(s, p, t)
    \/ \E s \in Sessions : ClearCart(s)
    \/ \E s \in Sessions : GetCart(s)
    \/ CleanupExpiredCarts
    \/ Tick(MaxTime)

SpecCart == Init /\ [][NextCart]_vars

NextLedger ==
    \/ \E s \in Sessions, p \in LedgerProducts, q \in 1..MaxQty, t \in PurchaseTypes :
          AddToCart(s, p, q, t, FALSE)
    \/ \E s \in Sessions, p \in LedgerProducts, q \in 0..MaxQty, t \in PurchaseTypes :
          UpdateCartItem(s, p, t, q, FALSE)
    \/ \E s \in Sessions, p \in LedgerProducts, t \in PurchaseTypes :
          RemoveFromCart(s, p, t)
    \/ \E s \in Sessions : ClearCart(s)
    \/ \E p \in LedgerProducts, n \in 0..InitStock : UpdateStock(p, n)

SpecLedger == Init /\ [][NextLedger]_vars

NextOrder ==
    \/ \E s \in Sessions, p \in Products, q \in 1..MaxQty, t \in PurchaseTypes :
          freeOrderIds # {} /\ AddToCart(s, p, q, t, FALSE)
    \/ \E s \in Sessions, city \in Cities, n \in 0..MaxPrescriptions :
          freeOrderIds # {} /\ CreateOrder(s, city, n, FALSE)
    \/ \E o \in OrderIds, st \in Statuses : UpdateOrderStatus(o, st)
    \/ \E o \in OrderIds : CancelOrder(o)
    \/ \E o \in OrderIds, i \in 1..MaxPrescriptions, v \in BOOLEAN :
          VerifyPrescription(o, i, v)
    \/ \E o \in OrderIds, st \in Statuses \cup {"none"},
          a \in {"none", "approve", "reject"}, i \in 1..MaxPrescriptions :
          AdminUpdateOrder(o, st, a, i)
    \/ RevenueJob
    \/ Tick(MaxOrderTime)

SpecOrder == Init /\ [][NextOrder]_vars

\* the life of the order of one customer
RevenueSessions == {"s1"}

NextRevenue ==
    \/ \E s \in RevenueSessions, p \in Products, q \in 1..MaxQty,
          t \in PurchaseTypes :
          freeOrderIds # {} /\ AddToCart(s, p, q, t, FALSE)
    \/ \E s \in RevenueSessions, city \in Cities, n \in 0..MaxPrescriptions :
          freeOrderIds # {} /\ CreateOrder(s, city, n, FALSE)
    \/ \E o \in OrderIds, st \in Statuses : UpdateOrderStatus(o, st)
    \/ \E o \in OrderIds : CancelOrder(o)
    \/ \E o \in OrderIds, st \in Statuses : AdminUpdateOrder(o, st, "none", 1)
    \/ RevenueJob
    \/ Tick(MaxOrderTime)

SpecRevenue == Init /\ [][NextRevenue]_vars

\* checkout: carts are filled, expire, are swept and are checked out
NextCheckout ==
    \/ \E s \in RevenueSessions, p \in Products, q \in 1..MaxQty,
          t \in PurchaseTypes : AddToCart(s, p, q, t, FALSE)
    \/ \E s \in RevenueSessions, city \in Cities, n \in 0..MaxPrescriptions,
          f \in BOOLEAN : CreateOrder(s, city, n, f)
    \/ CleanupExpiredCarts
    \/ Tick(MaxTime)

SpecCheckout == Init /\ [][NextCheckout]_vars

\* cart requests during which the cart's save may reject
NextFault ==
    \/ \E s \in Sessions, p \in LedgerProducts, q \in 1..MaxQty,
          t \in PurchaseTypes, f \in BOOLEAN : AddToCart(s, p, q, t, f)
    \/ \E s \in Sessions, p \in LedgerProducts, q \in 0..MaxQty,
          t \in PurchaseTypes, f \in BOOLEAN : UpdateCartItem(s, p, t, q, f)

SpecFault == Init /\ [][NextFault]_vars

\* carts are filled and swept while the admin rewrites the stock
NextSweep ==
    \/ \E s \in Sessions, p \in LedgerProducts, q \in 1..MaxQty,
          t \in PurchaseTypes : AddToCart(s, p, q, t, FALSE)
    \/ \E p \in LedgerProducts, n \in 0..InitStock : UpdateStock(p, n)
    \/ CleanupExpiredCarts
    \/ Tick(MaxTime)

SpecSweep == Init /\ [][NextSweep]_vars

\* carts are filled and swept, and a sweep may fail on one of them
NextSweepFault ==
    \/ \E s \in Sessions, p \in LedgerProducts, q \in 1..MaxQty,
          t \in PurchaseTypes : AddToCart(s, p, q, t, FALSE)
    \/ CleanupExpiredCarts
    \/ \E ord \in SessionLists, j \in 1..Cardinality(Sessions),
          k \in 1..(Cardinality(Products \X PurchaseTypes) + 1) :
          CleanupExpiredCartsFails(ord, j, k)
    \/ Tick(MaxTime)

SpecSweepFault == Init /\ [][NextSweepFault]_vars

\* the product ordered in the history specification
HistoryProducts == {"p2"}

\* one order and every request and job that writes its status or history
NextHistory ==
    \/ \E s \in RevenueSessions, p \in HistoryProducts, q \in 1..MaxQty,
          t \in PurchaseTypes :
          freeOrderIds # {} /\ AddToCart(s, p, q, t, FALSE)
    \/ \E s \in RevenueSessions, city \in Cities, n \in 0..MaxPrescriptions :
          freeOrderIds # {} /\ CreateOrder(s, city, n, FALSE)
    \/ \E o \in OrderIds, st \in Statuses : UpdateOrderStatus(o, st)
    \/ \E o \in OrderIds : CancelOrder(o)
    \/ \E o \in OrderIds, i \in 1..MaxPrescriptions, v \in BOOLEAN :
          VerifyPrescription(o, i, v)
    \/ \E o \in OrderIds, st \in Statuses \cup {"none"},
          a \in {"none", "approve", "reject"}, i \in 1..MaxPrescriptions :
          AdminUpdateOrder(o, st, a, i)
    \/ HistoryCleanupJob

\* an order of one package of p2 after HistoryKeep + 1 requests for the status
\* packed: the cart was emptied by the checkout, the unit is still reserved
InitLongHistory ==
    /\ product = [p \in Products |->
                     [stock |-> InitStock,
                      reservedStock |-> IF p = "p2" THEN 1 ELSE 0]]
    /\ cart = [s \in Sessions |-> IF s \in RevenueSessions THEN NewCart(0) ELSE NoCart]
    /\ order = [o \in OrderIds |->
                   orderPreSave(
                      [NoOrder EXCEPT
                          !.exists = TRUE,
                          !.items = <<orderItemOf([product |-> "p2", quantity |-> 1,
                                                   purchaseType |-> "package",
                                                   totalPrice |-> price("p2")])>>,
                          !.prescriptions = <<FALSE>>,
                          !.pricing = [@ EXCEPT !.deliveryFee =
                                          calculateDeliveryFee("biratnagar")],
                          !.status = "packed",
                          !.statusHistory = [i \in 1..(HistoryKeep + 1) |-> "packed"]])]
    /\ now = 0
    /\ response = Resp("init", "ok")
    /\ req = [s \in Sessions \cup {Sweeper} |-> IF s = Sweeper THEN SweeperIdle ELSE Idle]

InitHistory == Init \/ InitLongHistory

SpecHistory == InitHistory /\ [][NextHistory]_vars

\* an order is confirmed while the carts of both sessions keep reserving
NextConfirm ==
    \/ \E s \in Sessions, p \in LedgerProducts, q \in 1..MaxQty,
          t \in PurchaseTypes : AddToCart(s, p, q, t, FALSE)
    \/ \E s \in Sessions, city \in Cities, n \in 0..MaxPrescriptions :
          CreateOrder(s, city, n, FALSE)
    \/ \E o \in OrderIds, st \in Statuses : UpdateOrderStatus(o, st)
    \/ \E o \in OrderIds : CancelOrder(o)

SpecConfirm == Init /\ [][NextConfirm]_vars

\* the purchase type of the requests that race with the sweep
RacePurchaseTypes == {"package"}

\* cart requests run between the awaits of the sweep
NextSweepRace ==
    \/ \E s \in Sessions, p \in LedgerProducts, q \in 1..MaxQty,
          t \in RacePurchaseTypes : AddToCart(s, p, q, t, FALSE)
    \/ \E s \in Sessions, p \in LedgerProducts, q \in 0..MaxQty,
          t \in RacePurchaseTypes : UpdateCartItem(s, p, t, q, FALSE)
    \/ \E ord \in SessionLists : FindExpiredCarts(ord)
    \/ ReleaseExpiredCart
    \/ MarkExpiredCart
    \/ Tick(MaxTime)

SpecSweepRace == Init /\ [][NextSweepRace]_vars

\* the clock runs long enough for the last cart call to expire
LiveLimit == SessionTtlMinutes + 2 * TickMinutes

\* carts are filled for a while and then abandoned; the cron schedule keeps
\* running the sweep and the clock keeps advancing
NextSweepLive ==
    \/ \E s \in Sessions, p \in LedgerProducts, q \in 1..MaxQty,
          t \in PurchaseTypes :
          /\ now + SessionTtlMinutes + TickMinutes <= LiveLimit
          /\ AddToCart(s, p, q, t, FALSE)
    \/ CleanupExpiredCarts
    \/ Tick(LiveLimit)

SpecSweepLive ==
    /\ Init /\ [][NextSweepLive]_vars
    /\ WF_vars(CleanupExpiredCarts)
    /\ WF_vars(Tick(LiveLimit))

NextConc ==
    \/ \E s \in Sessions, p \in LedgerProducts, q \in 1..MaxQty, t \in PurchaseTypes :
          BeginAdd(s, p, q, t)
    \/ \E s \in Sessions : ReserveAdd(s)
    \/ \E s \in Sessions : FinishAdd(s)

SpecConc == Init /\ [][NextConc]_vars

\* ============================================================ properties
\* base units a purchase of `quantity` of product p needs: units are
\* rounded up to whole packages
BaseUnits(p, purchaseType, quantity) ==
    IF purchaseType = "unit" /\ isStripType(p)
    THEN IF quantity % unitsPerStrip(p) = 0
         THEN quantity \div unitsPerStrip(p)
         ELSE quantity \div unitsPerStrip(p) + 1
    ELSE quantity

RECURSIVE HeldIn(_, _)
HeldIn(items, p) ==
    IF items = <<>> THEN 0
    ELSE (IF Head(items).product = p THEN Head(items).reservedStock ELSE 0)
         + HeldIn(Tail(items), p)

\* what the lines of session s hold of product p
Held(s, p) == IF cart[s].status = "active" THEN HeldIn(cart[s].items, p) ELSE 0

RECURSIVE SumHeld(_, _)
SumHeld(ss, p) ==
    IF ss = {} THEN 0
    ELSE LET s == CHOOSE x \in ss : TRUE
         IN  Held(s, p) + SumHeld(ss \ {s}, p)

RECURSIVE OrderUnits(_, _)
OrderUnits(items, p) ==
    IF items = <<>> THEN 0
    ELSE (IF Head(items).product = p
          THEN BaseUnits(p, Head(items).purchaseType, Head(items).quantity)
          ELSE 0)
         + OrderUnits(Tail(items), p)

HasLine(s, p) == \E i \in 1..Len(cart[s].items) : cart[s].items[i].product = p

\* C1: for every product, in every reachable state, 0 <= reservedStock <= stock
C1_ReservedWithinStock ==
    \A p \in Products :
        0 <= product[p].reservedStock /\ product[p].reservedStock <= product[p].stock

\* C2: with no orders outstanding, a product's reservedStock equals the sum
\* of reservedBaseUnits over the lines of all active sessions
C2_HoldsMatchLedger ==
    (\A o \in OrderIds : ~order[o].exists) =>
        \A p \in Products : product[p].reservedStock = SumHeld(Sessions, p)

\* C3: when reserve calls of different sessions interleave, the units held by
\* all sessions together never exceed the product's stock
C3_NoOversell ==
    \A p \in Products : SumHeld(Sessions, p) <= product[p].stock

\* C4: reservedStock grows only by a reserve that fits into stock - reservedStock,
\* a new line reserves exactly its base units and leaves stock alone, no
\* session gains a hold on a product without available stock, and a request
\* refused for insufficient stock changes neither the ledger nor any session
C4_ReserveWithinAvailable ==
    [][ /\ \A p \in Products :
             /\ product'[p].reservedStock > product[p].reservedStock =>
                   /\ product'[p].stock = product[p].stock
                   /\ product'[p].reservedStock - product[p].reservedStock
                         <= product[p].stock - product[p].reservedStock
                   /\ response' = "ok"
             /\ product[p].stock - product[p].reservedStock <= 0 =>
                   \A s \in Sessions : Held(s, p)' <= Held(s, p)
        /\ \A s \in Sessions :
             (cart'[s].status = "active"
              /\ Len(cart'[s].items) = Len(cart[s].items) + 1) =>
                LET line == cart'[s].items[Len(cart'[s].items)]
                IN  /\ product'[line.product].reservedStock =
                          product[line.product].reservedStock
                          + BaseUnits(line.product, line.purchaseType, line.quantity)
                    /\ product'[line.product].stock = product[line.product].stock
        /\ response' = "InsufficientStock" => (product' = product /\ cart' = cart)
      ]_vars

\* a session holds the whole stock of a product and the add of another
\* session, which has no line of it, was refused
C4_Witness ==
    /\ response = "InsufficientStock"
    /\ \E p \in Products, s1 \in Sessions, s2 \in Sessions :
          /\ s1 # s2
          /\ product[p].stock > 0
          /\ product[p].reservedStock = product[p].stock
          /\ Held(s1, p) = product[p].stock
          /\ ~HasLine(s2, p)

\* C5: every change of a product's counters has the shape of a reserve or a
\* release (reservedStock changes, stock does not) or of a deduct (both
\* decrease by the same amount)
C5_OnlyLedgerOperations ==
    [][ \A p \in Products :
           \/ product'[p] = product[p]
           \/ product'[p].stock = product[p].stock
           \/ /\ product'[p].stock < product[p].stock
              /\ product[p].stock - product'[p].stock
                    = product[p].reservedStock - product'[p].reservedStock
      ]_vars

ForwardNext ==
    {<<"pending", "prescription_verified">>, <<"prescription_verified", "confirmed">>,
     <<"confirmed", "packed">>, <<"packed", "out_for_delivery">>,
     <<"out_for_delivery", "delivered">>}

TransitionTable ==
    ForwardNext
    \cup {<<st, "cancelled">> : st \in {"pending", "prescription_verified",
                                         "confirmed", "packed", "out_for_delivery"}}
    \cup {<<"delivered", "returned">>}

\* C6: an order's status and history change only along the transition table
C6_OnlyTableTransitions ==
    [][ \A o \in OrderIds :
           (order[o].exists
            /\ (order'[o].status # order[o].status
                \/ order'[o].statusHistory # order[o].statusHistory)) =>
               <<order[o].status, order'[o].status>> \in TransitionTable
      ]_vars

\* C7: the step that makes an order confirmed decreases stock and
\* reservedStock of every product by the base units of the order's lines
C7_ConfirmDeducts ==
    [][ \A o \in OrderIds :
           (order[o].exists /\ order[o].status # "confirmed"
            /\ order'[o].status = "confirmed") =>
               \A p \in Products :
                  /\ product'[p].stock =
                        product[p].stock - OrderUnits(order[o].items, p)
                  /\ product'[p].reservedStock =
                        product[p].reservedStock - OrderUnits(order[o].items, p)
      ]_vars

\* C8: a confirmation that fails on a reservation underrun changes neither
\* the order (status, history) nor the ledger
C8_UnderrunAborts ==
    [][ response' = "InsufficientReservedStock" =>
           /\ product' = product
           /\ \A o \in OrderIds :
                 /\ order'[o].status = order[o].status
                 /\ order'[o].statusHistory = order[o].statusHistory
      ]_vars

\* C9: revenue is recorded when delivered is first reached, and once recorded
\* it never changes again
C9_RevenueOnce ==
    /\ [](\A o \in OrderIds :
            order[o].exists =>
               (order[o].revenue.recorded <=>
                   \E i \in 1..Len(order[o].statusHistory) :
                      order[o].statusHistory[i] = "delivered"))
    /\ [][ \A o \in OrderIds :
              order[o].revenue.recorded => order'[o].revenue = order[o].revenue
         ]_vars

\* a delivered event arrived again, later than the recording
C9_Witness ==
    \E o \in OrderIds :
       /\ order[o].revenue.recorded
       /\ Len(order[o].statusHistory) = 2
       /\ order[o].statusHistory[1] = "delivered"
       /\ order[o].statusHistory[2] = "delivered"
       /\ order[o].revenue.recordedAt < now
       /\ response = "ok"

\* C10: recorded revenue: gross = total = subtotal + fee + tax - discount,
\* net = gross - fee, profit = net - 0.7 * (sum of the line totals)
C10_RevenueAmounts ==
    \A o \in OrderIds :
       (order[o].exists /\ order[o].revenue.recorded) =>
          LET pr == order[o].pricing
              rv == order[o].revenue
              lines == SumField(order[o].items, "totalPrice")
          IN  /\ pr.subtotal = lines
              /\ pr.total = pr.subtotal + pr.deliveryFee + pr.tax - pr.discount
              /\ rv.grossRevenue = pr.total
              /\ rv.netRevenue = rv.grossRevenue - pr.deliveryFee
              /\ rv.profit10 = 10 * rv.netRevenue - 7 * lines

\* subtotal 200 and delivery fee 50 recorded as gross revenue 250
C10_Witness ==
    \E o \in OrderIds :
       /\ order[o].revenue.recorded
       /\ order[o].pricing.subtotal = 20000
       /\ order[o].pricing.deliveryFee = 5000
       /\ order[o].revenue.grossRevenue = 25000
       /\ order[o].revenue.netRevenue = 20000
       /\ order[o].revenue.profit10 = 60000

InHistory(o, st) ==
    \E i \in 1..Len(order[o].statusHistory) : order[o].statusHistory[i] = st

\* a cancellation of order o happens in this step
CancelStep(o) ==
    /\ order[o].exists
    /\ order'[o].status = "cancelled"
    /\ Len(order'[o].statusHistory) = Len(order[o].statusHistory) + 1

\* C11: cancelling an order that was not confirmed releases each line's base
\* units from reservedStock and leaves stock unchanged
C11_CancelReleasesHold ==
    [][ \A o \in OrderIds :
           (CancelStep(o) /\ order[o].status # "confirmed"
            /\ ~InHistory(o, "confirmed")) =>
               \A p \in Products :
                  /\ product'[p].stock = product[p].stock
                  /\ product'[p].reservedStock =
                        product[p].reservedStock - OrderUnits(order[o].items, p)
      ]_vars

\* the lines of order o have been deducted from stock
Deducted(o) ==
    /\ \E p \in Products : OrderUnits(order[o].items, p) > 0
    /\ \A p \in Products :
          product[p].stock = InitStock - OrderUnits(order[o].items, p)

\* C12: cancelling a confirmed order, whose stock was deducted, adds each
\* line's base units back to stock and does not lower reservedStock
C12_CancelAfterConfirmRestocks ==
    [][ \A o \in OrderIds :
           (CancelStep(o) /\ order[o].status = "confirmed" /\ Deducted(o)) =>
               \A p \in Products :
                  /\ product'[p].stock =
                        product[p].stock + OrderUnits(order[o].items, p)
                  /\ product'[p].reservedStock >= product[p].reservedStock
      ]_vars

\* C13: when the verdicts make prescriptionStatus verified the order moves to
\* prescription_verified; when a rejection makes it rejected the order moves
\* to cancelled and its hold is released; an approval that leaves another
\* prescription unapproved changes neither prescriptionStatus nor status
C13_VerdictsDriveStatus ==
    [][ \A o \in OrderIds :
           order[o].exists =>
              /\ (order'[o].prescriptionStatus = "verified"
                  /\ order[o].prescriptionStatus # "verified") =>
                     order'[o].status = "prescription_verified"
              /\ (order'[o].prescriptionStatus = "rejected"
                  /\ order[o].prescriptionStatus # "rejected") =>
                     /\ order'[o].status = "cancelled"
                     /\ CancelStep(o)
              /\ (order'[o].prescriptions # order[o].prescriptions
                  /\ \E j \in 1..Len(order'[o].prescriptions) :
                        ~order'[o].prescriptions[j]
                  /\ \A k \in 1..Len(order'[o].prescriptions) :
                        order[o].prescriptions[k] => order'[o].prescriptions[k]) =>
                     /\ order'[o].prescriptionStatus = order[o].prescriptionStatus
                     /\ order'[o].status = order[o].status
      ]_vars

\* C14: an order with a prescription-required line is on the forward path
\* (prescription_verified .. delivered) only while prescriptionStatus = verified
C14_PrescriptionGate ==
    \A o \in OrderIds :
       (order[o].exists /\ order[o].hasPrescriptionItems
        /\ order[o].status \in {"prescription_verified", "confirmed", "packed",
                                "out_for_delivery", "delivered"}) =>
           order[o].prescriptionStatus = "verified"

\* the lines of an order are the lines of a cart
SameLines(orderItems, cartItems) ==
    /\ Len(orderItems) = Len(cartItems)
    /\ \A i \in 1..Len(cartItems) :
          /\ orderItems[i].product = cartItems[i].product
          /\ orderItems[i].quantity = cartItems[i].quantity
          /\ orderItems[i].purchaseType = cartItems[i].purchaseType

\* C15: a checkout of a session without lines (never filled, or emptied by an
\* earlier checkout) or with expiresAt in the past is rejected and changes
\* neither orders, ledger nor carts; an order is only ever created from an
\* active session that has lines and has not expired
C15_RejectedCheckout ==
    [][ /\ response' \in {"CartEmpty", "CartExpired"} =>
              (order' = order /\ product' = product /\ cart' = cart)
        /\ \A o \in OrderIds :
              (~order[o].exists /\ order'[o].exists) =>
                 \E s \in Sessions :
                    /\ cart[s].status = "active"
                    /\ Len(cart[s].items) > 0
                    /\ cart[s].expiresAt >= now
                    /\ SameLines(order'[o].items, cart[s].items)
        /\ (\A s \in Sessions :
               \/ cart[s].status # "active"
               \/ Len(cart[s].items) = 0
               \/ cart[s].expiresAt < now) =>
              response' \notin {"created", "PrescriptionRequired",
                                "CheckoutInsufficientStock"}
      ]_vars

\* an order exists and the checkout of an expired session that has lines was
\* refused
C15_Witness ==
    /\ response = "CartExpired"
    /\ \E o \in OrderIds : order[o].exists
    /\ \E s \in Sessions :
          /\ cart[s].status = "active"
          /\ Len(cart[s].items) > 0
          /\ cart[s].expiresAt < now

\* C16: a successful checkout sets the session's status to converted and
\* leaves every product's reservedStock as it was
C16_CheckoutConverts ==
    [][ response' = "created" =>
           /\ \E s \in Sessions :
                 /\ cart[s].status = "active"
                 /\ Len(cart[s].items) > 0
                 /\ cart'[s].status = "converted_to_order"
           /\ \A p \in Products :
                 product'[p].reservedStock = product[p].reservedStock
      ]_vars

HasRxLine(items) ==
    \E i \in 1..Len(items) : medicineType(items[i].product) = "Prescription"

C18_CheckoutAllOrNothing ==
    [][ /\ \A o \in OrderIds :
              (~order[o].exists /\ order'[o].exists) =>
                 \A s \in Sessions :
                    (cart[s].status = "active" /\ Len(cart[s].items) > 0
                     /\ SameLines(order'[o].items, cart[s].items)) =>
                        (cart'[s].status # "active" \/ Len(cart'[s].items) = 0)
        /\ response' \in {"CartEmpty", "CartExpired", "CheckoutInsufficientStock",
                          "PrescriptionRequired"} =>
              (order' = order /\ cart' = cart /\ product' = product)
      ]_vars

\* C19: when a request raises the quantity of an existing line, the line's
\* reservedStock becomes the base units of the new total and the product's
\* reservedStock grows by exactly the difference to the line's previous hold
C19_MergeReservesDelta ==
    [][ \A s \in Sessions :
           (cart[s].status = "active" /\ cart'[s].status = "active"
            /\ Len(cart'[s].items) = Len(cart[s].items)) =>
              \A i \in 1..Len(cart[s].items) :
                 LET old == cart[s].items[i]
                     new == cart'[s].items[i]
                 IN  (new.product = old.product
                      /\ new.purchaseType = old.purchaseType
                      /\ new.quantity > old.quantity) =>
                        /\ new.reservedStock =
                              BaseUnits(new.product, new.purchaseType, new.quantity)
                        /\ product'[new.product].reservedStock
                              - product[new.product].reservedStock
                           = new.reservedStock - old.reservedStock
      ]_vars

\* C20: a cart request that fails does not leave behind what it reserved:
\* after a failed call no product's reservedStock is above its value before
\* the call
C20_FailedCallReleases ==
    [][ response' = "Error" =>
           \A p \in Products :
              product'[p].reservedStock <= product[p].reservedStock
      ]_vars

\* the line of session s for (p, purchaseType) in a list of items
LineOf(items, p, purchaseType) == items[findIndex(items, p, purchaseType)]

\* C21: a successful update to a quantity above 0 changes the product's
\* reservedStock by (base units of the new quantity) - (the line's stored
\* reservedStock), leaves stock alone and stores the new requirement in the
\* line; an update to quantity 0 is the step that removeFromCart makes
C21_UpdateReservesDelta ==
    [][ \A s \in Sessions, p \in Products, t \in PurchaseTypes :
           /\ \A q \in 1..MaxLineQty :
                 (UpdateCartItem(s, p, t, q, FALSE) /\ response' = "ok") =>
                    LET old == LineOf(cart[s].items, p, t)
                        new == LineOf(cart'[s].items, p, t)
                    IN  /\ findIndex(cart'[s].items, p, t) > 0
                        /\ new.quantity = q
                        /\ new.reservedStock = BaseUnits(p, t, q)
                        /\ product'[p].stock = product[p].stock
                        /\ product'[p].reservedStock - product[p].reservedStock
                              = BaseUnits(p, t, q) - old.reservedStock
                        /\ \A p2 \in Products \ {p} : product'[p2] = product[p2]
           /\ (UpdateCartItem(s, p, t, 0, FALSE) /\ response' = "ok") =>
                 RemoveFromCart(s, p, t)
      ]_vars

\* C22: removeFromCart lowers the product's reservedStock by exactly the
\* removed line's reservedStock and drops the line; clearCart does so for
\* every line and leaves the item list empty; neither changes stock, another
\* product's counters or the cart of another session
C22_RemoveReleasesLine ==
    [][ \A s \in Sessions :
           /\ \A p \in Products, t \in PurchaseTypes :
                 (RemoveFromCart(s, p, t) /\ response' = "ok") =>
                    LET old == LineOf(cart[s].items, p, t)
                    IN  /\ Len(cart'[s].items) = Len(cart[s].items) - 1
                        /\ findIndex(cart'[s].items, p, t) = 0
                        /\ product'[p].reservedStock =
                              product[p].reservedStock - old.reservedStock
                        /\ \A p2 \in Products :
                              /\ product'[p2].stock = product[p2].stock
                              /\ p2 # p => product'[p2] = product[p2]
                        /\ \A s2 \in Sessions \ {s} : cart'[s2] = cart[s2]
           /\ (ClearCart(s) /\ response' = "ok") =>
                 /\ cart'[s].items = <<>>
                 /\ \A p \in Products :
                       /\ product'[p].stock = product[p].stock
                       /\ product'[p].reservedStock =
                             product[p].reservedStock - HeldIn(cart[s].items, p)
                 /\ \A s2 \in Sessions \ {s} : cart'[s2] = cart[s2]
      ]_vars

\* C23: every request that changes the lines of a session (add, update,
\* remove, clear) sets the session's expiresAt to the time of the call plus
\* 30 minutes
C23_MutationRefreshesExpiry ==
    [][ \A s \in Sessions :
           (cart'[s].status = "active" /\ cart'[s].items # cart[s].items) =>
              cart'[s].expiresAt = now + SessionTtlMinutes
      ]_vars

\* the sessions a sweep at the current time selects
Selected == {s \in Sessions : cart[s].status = "active" /\ cart[s].expiresAt < now}

\* C24: a session becomes expired only from active with expiresAt < now and
\* keeps its lines; the sweep marks every such session expired, leaves all
\* other sessions as they are, leaves stock alone and lowers each product's
\* reservedStock by exactly what the lines of the selected sessions hold, so
\* a sweep that selects nothing releases nothing
C24_SweepReleasesExpired ==
    [][ /\ \A s \in Sessions :
              (cart'[s].status = "expired" /\ cart[s].status # "expired") =>
                 /\ s \in Selected
                 /\ cart'[s].items = cart[s].items
        /\ CleanupExpiredCarts =>
              /\ \A s \in Sessions :
                    IF s \in Selected
                    THEN cart'[s].status = "expired"
                    ELSE cart'[s] = cart[s]
              /\ \A p \in Products :
                    /\ product'[p].stock = product[p].stock
                    /\ product'[p].reservedStock =
                          product[p].reservedStock - SumHeld(Selected, p)
      ]_vars

\* C25: a sweep that fails on one session still marks every other selected
\* session expired, leaves the failing session active, and has released
\* nothing on behalf of a session it leaves active with its lines (whatever
\* it released there would be released again by the next sweep)
C25_SweepFailureIsolated ==
    [][ response' = "SweepError" =>
           /\ Cardinality({s \in Selected : cart'[s].status # "expired"}) <= 1
           /\ \A s \in Selected :
                 cart'[s].status # "expired" => cart'[s] = cart[s]
           /\ \A p \in Products :
                 product'[p].reservedStock =
                    product[p].reservedStock
                    - SumHeld({s \in Selected : cart'[s].status = "expired"}, p)
      ]_vars

\* h2 is the tail of h1: entries were dropped from the front, none changed
IsSuffix(h2, h1) ==
    /\ Len(h2) <= Len(h1)
    /\ \A i \in 1..Len(h2) : h2[i] = h1[Len(h1) - Len(h2) + i]

\* C26: a step that changes an order's status appends exactly one entry, for
\* the new status, to statusHistory; the history changes only by such an
\* append or by dropping entries from its front, so entries are never
\* modified or reordered; and once the history has an entry, its last entry
\* is the order's current status
C26_StatusHistoryAppends ==
    /\ [][ \A o \in OrderIds :
              order[o].exists =>
                 /\ order'[o].status # order[o].status =>
                       order'[o].statusHistory =
                          Append(order[o].statusHistory, order'[o].status)
                 /\ order'[o].statusHistory # order[o].statusHistory =>
                       \/ order'[o].statusHistory =
                             Append(order[o].statusHistory, order'[o].status)
                       \/ IsSuffix(order'[o].statusHistory, order[o].statusHistory)
         ]_vars
    /\ [](\A o \in OrderIds :
             (order[o].exists /\ order[o].statusHistory # <<>>) =>
                order[o].statusHistory[Len(order[o].statusHistory)]
                   = order[o].status)

\* a prescription order was verified and then cancelled by a rejection: two
\* entries, the last one for the current status
C26_Witness ==
    \E o \in OrderIds :
       /\ order[o].exists
       /\ order[o].statusHistory = <<"prescription_verified", "cancelled">>
       /\ order[o].status = "cancelled"
       /\ order[o].prescriptionStatus = "rejected"

\* the weekly job has cut a history of more than 50 entries down to its last
\* 50 and the order is still in the status of the last entry
TrimmedHistoryReached ==
    \E o \in OrderIds :
       /\ order[o].exists
       /\ Len(order[o].statusHistory) = HistoryKeep
       /\ order[o].statusHistory[HistoryKeep] = order[o].status

\* C27: a checkout is refused for insufficient stock only when some line of
\* an active session is not covered by the product's reservedStock; a session
\* whose lines are all reserved is never refused for stock, even when
\* stock - reservedStock is 0
C27_CheckoutUsesHeldStock ==
    [][ response' = "CheckoutInsufficientStock" =>
           \E s \in Sessions, p \in Products :
              /\ cart[s].status = "active"
              /\ product[p].reservedStock < Held(s, p)
      ]_vars

\* C28: once the lines of a confirmed order have been deducted, no later step
\* lowers any product's stock, and a further request for the status confirmed
\* leaves reservedStock as it is
C28_DeductOnce ==
    [][ \A o \in OrderIds :
           (order[o].exists /\ InHistory(o, "confirmed") /\ Deducted(o)) =>
              /\ \A p \in Products : product'[p].stock >= product[p].stock
              /\ order'[o].statusHistory =
                    Append(order[o].statusHistory, "confirmed") =>
                    \A p \in Products :
                       product'[p].reservedStock = product[p].reservedStock
      ]_vars

\* C29: while cart requests run between the steps of a sweep, a session is
\* marked expired only if its expiresAt is in the past at that moment, and
\* whenever no sweep is under way the ledger reserves no more than the lines
\* of the active sessions hold
C29_SweepRaceConsistent ==
    /\ [][ \A s \in Sessions :
              (cart[s].status = "active" /\ cart'[s].status = "expired") =>
                 cart[s].expiresAt < now
         ]_vars
    /\ [](req[Sweeper].pc = "idle" =>
             \A p \in Products : product[p].reservedStock <= SumHeld(Sessions, p))

\* C30: when the sweep keeps running, every active session that gets no more
\* calls eventually is expired, and in the end no unit reserved for an
\* abandoned session is left in any product's reservedStock
C30_AbandonedIsReclaimed ==
    /\ \A s \in Sessions :
          [](cart[s].status = "active" => <>(cart[s].status = "expired"))
    /\ <>[](\A p \in Products : product[p].reservedStock = 0)

\* every active session eventually is expired
EventuallyExpired ==
    \A s \in Sessions :
       [](cart[s].status = "active" => <>(cart[s].status = "expired"))

====
